---- MODULE Spec2Model ----
(***************************************************************************)
(* Model of backend/scanner/ingest.py: ingest_repo downloads a repository  *)
(* archive, walks its entries once, filters and normalises their paths,    *)
(* enforces the resource caps and returns (FilesPayload, Stats).           *)
(*                                                                         *)
(* Strings are TLA+ strings; the Python string operations the code uses    *)
(* (split, join, startswith, rstrip, lower, os.path.splitext, decode) are  *)
(* operators computed character by character.                              *)
(*                                                                         *)
(* The archive is consumed as the for loop consumes it: len(entries) is    *)
(* fixed when the archive is opened and the ZipInfo of each iteration is   *)
(* drawn from the set Entries when the loop reaches it.                    *)
(***************************************************************************)
EXTENDS Integers, Sequences, FiniteSets, TLC

(***************************************************************************)
(* Caps (ingest.py:27-31).  The values are scaled down so that every cap   *)
(* can fire within a few entries; their order is the order of the source:  *)
(*   MAX_FILES_IN_MEMORY < MAX_FILES_EXTRACT,                              *)
(*   MAX_CHARS_PER_FILE < MAX_SINGLE_FILE_SIZE < MAX_TOTAL_UNCOMPRESSED,   *)
(*   MAX_FILES_IN_MEMORY <= MAX_TOTAL_UNCOMPRESSED.                        *)
(***************************************************************************)
MAX_TOTAL_UNCOMPRESSED == 6

MAX_FILES_EXTRACT == 3

MAX_SINGLE_FILE_SIZE == 3

MAX_FILES_IN_MEMORY == 2

MAX_CHARS_PER_FILE == 1

\* Largest number of entries of an archive (len(entries)).
MaxEntries == 4

SKIP_DIRS == {"node_modules", ".git", "dist", "build", ".next", "venv", "__pycache__"}

ALLOWED_EXT ==
    {".js", ".ts", ".py", ".java", ".go", ".rb", ".php", ".cs", ".c", ".cpp",
     ".json", ".yml", ".yaml", ".toml", ".env", ".sh", ".html", ".css"}

(***************************************************************************)
(* Python string operations.                                               *)
(***************************************************************************)
Char(s, i) == SubSeq(s, i, i)

\* s.endswith('/')
EndsWithSlash(s) == Len(s) > 0 /\ Char(s, Len(s)) = "/"

\* s.startswith(p)
StartsWith(s, p) == Len(s) >= Len(p) /\ SubSeq(s, 1, Len(p)) = p

\* s.rstrip('/')
RECURSIVE RStripSlash(_)
RStripSlash(s) ==
    IF EndsWithSlash(s) THEN RStripSlash(SubSeq(s, 1, Len(s) - 1)) ELSE s

\* s.split('/'): the segments between the separators, empty ones included.
RECURSIVE SplitFrom(_, _, _, _)
SplitFrom(s, i, cur, acc) ==
    IF i > Len(s) THEN Append(acc, cur)
    ELSE IF Char(s, i) = "/" THEN SplitFrom(s, i + 1, "", Append(acc, cur))
    ELSE SplitFrom(s, i + 1, cur \o Char(s, i), acc)

Split(s) == SplitFrom(s, 1, "", <<>>)

\* '/'.join(parts)
RECURSIVE Join(_)
Join(parts) ==
    IF Len(parts) = 0 THEN ""
    ELSE IF Len(parts) = 1 THEN parts[1]
    ELSE parts[1] \o "/" \o Join(Tail(parts))

\* str.lower() on one character.
LowerChar(c) ==
    CASE c = "A" -> "a" [] c = "B" -> "b" [] c = "C" -> "c" [] c = "D" -> "d"
      [] c = "E" -> "e" [] c = "F" -> "f" [] c = "G" -> "g" [] c = "H" -> "h"
      [] c = "I" -> "i" [] c = "J" -> "j" [] c = "K" -> "k" [] c = "L" -> "l"
      [] c = "M" -> "m" [] c = "N" -> "n" [] c = "O" -> "o" [] c = "P" -> "p"
      [] c = "Q" -> "q" [] c = "R" -> "r" [] c = "S" -> "s" [] c = "T" -> "t"
      [] c = "U" -> "u" [] c = "V" -> "v" [] c = "W" -> "w" [] c = "X" -> "x"
      [] c = "Y" -> "y" [] c = "Z" -> "z" [] OTHER -> c

RECURSIVE Lower(_)
Lower(s) == IF Len(s) = 0 THEN "" ELSE LowerChar(Char(s, 1)) \o Lower(Tail(s))

\* s.rfind(c): the last index of character c in s, 0 when there is none
\* (indices are 1-based here, -1 and 0-based in Python).
RECURSIVE RFindFrom(_, _, _)
RFindFrom(s, c, i) ==
    IF i = 0 THEN 0 ELSE IF Char(s, i) = c THEN i ELSE RFindFrom(s, c, i - 1)

RFind(s, c) == RFindFrom(s, c, Len(s))

\* os.path.splitext(p)[1]: the text from the last dot of the last path
\* component, unless that component has nothing but dots before it.
SplitExt(p) ==
    LET sepIndex == RFind(p, "/")
        dotIndex == RFind(p, ".")
    IN  IF dotIndex > sepIndex
           /\ \E k \in (sepIndex + 1)..(dotIndex - 1) : Char(p, k) # "."
        THEN SubSeq(p, dotIndex, Len(p))
        ELSE ""

(***************************************************************************)
(* The per-entry steps of ingest_repo, as the loop body computes them.     *)
(***************************************************************************)
\* name.endswith('/'): a directory entry.
IsDirectory(name) == EndsWithSlash(name)

\* Strip the top-level folder: parts[-1] for a single segment, else the
\* segments after the first joined again.
StripTop(name) ==
    LET parts == Split(name)
    IN  IF Len(parts) <= 1 THEN parts[Len(parts)] ELSE Join(Tail(parts))

\* `if subpath:` a None or empty subpath restricts nothing.
HasSubpath(sp) == sp # ""

\* The entry lies under the subpath (or is the subpath itself).
UnderSubpath(rel, sp) ==
    StartsWith(rel, RStripSlash(sp) \o "/") \/ rel = RStripSlash(sp)

\* rel_path[len(subpath.rstrip('/'))+1:] under the prefix, else ''.
StripSubpath(rel, sp) ==
    IF StartsWith(rel, RStripSlash(sp) \o "/")
    THEN SubSeq(rel, Len(RStripSlash(sp)) + 2, Len(rel))
    ELSE ""

\* The subpath filter rejects the entry.
OutsideSubpath(name, sp) == HasSubpath(sp) /\ ~UnderSubpath(StripTop(name), sp)

\* rel_path as it stands after the subpath step.
RelPath(name, sp) ==
    IF HasSubpath(sp) THEN StripSubpath(StripTop(name), sp) ELSE StripTop(name)

\* Mutant of HasSkipDir: only the first segment is looked up.
HasSkipDirFirstOnly(rel) == Split(rel)[1] \in SKIP_DIRS

\* any(p in SKIP_DIRS for p in rel_path.split('/'))
HasSkipDir(rel) ==
    LET path_parts == Split(rel)
    IN  \E i \in 1..Len(path_parts) : path_parts[i] \in SKIP_DIRS

\* extracted_count > MAX_FILES_EXTRACT
ExtractCapExceeded(count) == count > MAX_FILES_EXTRACT

\* total_uncompressed > MAX_TOTAL_UNCOMPRESSED
TotalCapExceeded(total) == total > MAX_TOTAL_UNCOMPRESSED

\* Mutant of ExtAllowed: any extension passes.
ExtAllowedAny(rel) == SplitExt(Lower(rel)) # ""

\* os.path.splitext(rel_path.lower())[1] in ALLOWED_EXT
ExtAllowed(rel) == SplitExt(Lower(rel)) \in ALLOWED_EXT

\* Mutant of TooLargeSingle: compared with the wrong cap.
TooLargeSingleTotalCap(size) == size > MAX_TOTAL_UNCOMPRESSED

\* info.file_size > MAX_SINGLE_FILE_SIZE
TooLargeSingle(size) == size > MAX_SINGLE_FILE_SIZE

\* Mutant of MemoryCapReached: off by one.
MemoryCapReachedLate(count) == count > MAX_FILES_IN_MEMORY

\* read_count >= MAX_FILES_IN_MEMORY
MemoryCapReached(count) == count >= MAX_FILES_IN_MEMORY

(***************************************************************************)
(* Reading and decoding.  A file's bytes are a string over four kinds of   *)
(* byte: "a" an ASCII byte, "L" the lead byte and "C" the continuation     *)
(* byte of a two-byte UTF-8 sequence, "X" a byte no UTF-8 text contains.   *)
(***************************************************************************)
\* fh.read(MAX_CHARS_PER_FILE + 1)
ReadRaw(data) ==
    SubSeq(data, 1, IF Len(data) < MAX_CHARS_PER_FILE + 1
                    THEN Len(data) ELSE MAX_CHARS_PER_FILE + 1)

\* The bytes are well-formed UTF-8.
RECURSIVE ValidUtf8(_)
ValidUtf8(raw) ==
    IF Len(raw) = 0 THEN TRUE
    ELSE IF Char(raw, 1) = "a" THEN ValidUtf8(Tail(raw))
    ELSE IF Char(raw, 1) = "L" /\ Len(raw) >= 2 /\ Char(raw, 2) = "C"
         THEN ValidUtf8(SubSeq(raw, 3, Len(raw)))
    ELSE FALSE

\* raw.decode('utf-8') of well-formed bytes: "LC" is the one character "e".
RECURSIVE DecodeUtf8(_)
DecodeUtf8(raw) ==
    IF Len(raw) = 0 THEN ""
    ELSE IF Char(raw, 1) = "a" THEN "a" \o DecodeUtf8(Tail(raw))
    ELSE "e" \o DecodeUtf8(SubSeq(raw, 3, Len(raw)))

\* raw.decode('latin-1'): one character for every byte.
RECURSIVE DecodeLatin1(_)
DecodeLatin1(raw) ==
    IF Len(raw) = 0 THEN ""
    ELSE (CASE Char(raw, 1) = "a" -> "a"
            [] Char(raw, 1) = "L" -> "l"
            [] Char(raw, 1) = "C" -> "c"
            [] OTHER -> "x") \o DecodeLatin1(Tail(raw))

\* Strict UTF-8, with the latin-1 fallback on UnicodeDecodeError.
Decode(raw) == IF ValidUtf8(raw) THEN DecodeUtf8(raw) ELSE DecodeLatin1(raw)

\* len(text) > MAX_CHARS_PER_FILE
OverCharCap(text) == Len(text) > MAX_CHARS_PER_FILE

\* text[:MAX_CHARS_PER_FILE] when over the cap.
CapText(text) ==
    IF OverCharCap(text) THEN SubSeq(text, 1, MAX_CHARS_PER_FILE) ELSE text

(***************************************************************************)
(* Inputs: the archive entries (ZipInfo.filename, ZipInfo.file_size, the   *)
(* entry's bytes, and whether opening or reading it raises), the subpath   *)
(* argument and the HTTP outcome.                                          *)
(***************************************************************************)
Entry(filename, data, bad) ==
    [filename |-> filename, file_size |-> Len(data), data |-> data, bad |-> bad]

Entries ==
    { Entry("r/", "", FALSE),               \* a directory entry
      Entry("r/a.py", "", FALSE),           \* allowlisted, zero bytes
      Entry("r/bad.py", "", TRUE),          \* allowlisted, unreadable
      Entry("q/a.py", "a", FALSE),          \* another first segment
      Entry("a.py", "a", FALSE),            \* a single segment
      Entry("r/A.PY", "a", FALSE),          \* upper-case extension
      Entry("r/src/a.py", "LC", FALSE),     \* under the subpath src
      Entry("r/src", "", FALSE),            \* the subpath itself
      Entry("r/dist/a.py", "a", FALSE),     \* denylisted at depth 1
      Entry("r/src/build/a.py", "a", FALSE),\* denylisted at depth 2
      Entry("r/src/../e.py", "a", FALSE),   \* a traversal segment
      Entry("r/a.md", "a", FALSE),          \* extension not allowlisted
      Entry("r/big.md", "aaaa", FALSE),     \* not allowlisted, over the single cap
      Entry("r/c.py", "aaa", FALSE),        \* over the per-file character cap
      Entry("r/u.py", "LCa", FALSE),        \* two characters in three bytes
      Entry("r/x.py", "Xaa", FALSE),        \* not UTF-8
      Entry("r/big.py", "aaaa", FALSE),     \* over the single-file cap
      Entry("r/huge.py", "aaaaaaa", FALSE)  \* over the total cap
    }

\* The loop variable before the first iteration.
NoInfo == [filename |-> "", file_size |-> 0, data |-> "", bad |-> FALSE]

Subpaths == {"", "src/", "dist"}

StatusCodes == {200, 300, 403, 404, 500}

\* The exceptions of client.get that are not httpx.ReadTimeout: the other
\* three httpx.TimeoutException subclasses and a transport error.
OtherDownloadErrors ==
    {"ConnectTimeout", "WriteTimeout", "PoolTimeout", "ConnectError"}

\* FilesMetadata()
NewFilesMetadata == [truncated |-> FALSE, reason |-> "None"]

\* Stats()
NewStats ==
    [files_considered |-> 0, files_included |-> 0, files_read |-> 0,
     files_skipped |-> 0, total_uncompressed_bytes |-> 0,
     truncated |-> FALSE, reason |-> "None"]

TerminatingReasons ==
    {"max_files_extracted_reached", "max_total_uncompressed_reached",
     "max_files_in_memory_reached"}

(***************************************************************************)
(* State.  pc is the position in ingest_repo; exc the exception in flight  *)
(* or raised; status the response status; tmp_exists whether the temporary *)
(* file is on disk; n_entries is len(entries), idx the position of info in *)
(* entries.  The last four variables record the history the properties     *)
(* speak of: the directory and file entries examined, whether every entry  *)
(* examined was an admitted zero-byte allowlisted file, and the caps that  *)
(* kept an entry that passed the path filters out of files; the last two   *)
(* the number of entries whose read was attempted and the declared sizes   *)
(* of the entries that passed the entry-count cap.  cause is the exception *)
(* client.get raised, is_zip whether resp.content is a zip archive.        *)
(***************************************************************************)
VARIABLES pc, exc, status, tmp_exists, subpath, cause, is_zip,
          n_entries, idx, info,
          files, metadata, stats,
          total_uncompressed, extracted_count, included_count, read_count,
          skipped_count,
          n_dirs, n_files, all_plain, dropped, n_attempted, sum_passed

vars == <<pc, exc, status, tmp_exists, subpath, cause, is_zip,
          n_entries, idx, info,
          files, metadata, stats,
          total_uncompressed, extracted_count, included_count, read_count,
          skipped_count,
          n_dirs, n_files, all_plain, dropped, n_attempted, sum_passed>>

loopVars == <<n_entries, idx, info, files, metadata, stats,
              total_uncompressed, extracted_count, included_count, read_count,
              skipped_count, n_dirs, n_files, all_plain, dropped,
              n_attempted, sum_passed>>

Init ==
    /\ pc = "download"
    /\ exc = "None"
    /\ status = 0
    /\ tmp_exists = FALSE
    /\ subpath \in Subpaths
    /\ n_entries = 0
    /\ idx = 0
    /\ info = NoInfo
    /\ files = <<>>
    /\ metadata = NewFilesMetadata
    /\ stats = NewStats
    /\ total_uncompressed = 0
    /\ extracted_count = 0
    /\ included_count = 0
    /\ read_count = 0
    /\ skipped_count = 0
    /\ n_dirs = 0
    /\ n_files = 0
    /\ all_plain = TRUE
    /\ dropped = {}
    /\ n_attempted = 0
    /\ sum_passed = 0
    /\ cause = "None"
    /\ is_zip = FALSE

(***************************************************************************)
(* The download.                                                           *)
(***************************************************************************)
\* client.get raises httpx.ReadTimeout.
DownloadReadTimeout ==
    /\ pc = "download"
    /\ cause' = "ReadTimeout"
    /\ pc' = "raised"
    /\ exc' = "DownloadTimeout"
    /\ UNCHANGED <<status, tmp_exists, subpath, is_zip>>
    /\ UNCHANGED loopVars

\* client.get raises anything else (connect, write and pool timeouts, and
\* transport errors, are not ReadTimeout).
DownloadFails ==
    /\ pc = "download"
    /\ \E c \in OtherDownloadErrors : cause' = c
    /\ pc' = "raised"
    /\ exc' = "IngestError"
    /\ UNCHANGED <<status, tmp_exists, subpath, is_zip>>
    /\ UNCHANGED loopVars

\* client.get returns a response.
DownloadResponds ==
    /\ pc = "download"
    /\ \E code \in StatusCodes : status' = code
    /\ is_zip' \in BOOLEAN
    /\ pc' = "status"
    /\ UNCHANGED <<exc, tmp_exists, subpath, cause>>
    /\ UNCHANGED loopVars

StatusNotFound ==
    /\ pc = "status"
    /\ status = 404
    /\ pc' = "raised"
    /\ exc' = "NotFoundError"
    /\ UNCHANGED <<status, tmp_exists, subpath, cause, is_zip>>
    /\ UNCHANGED loopVars

StatusError ==
    /\ pc = "status"
    /\ status # 404
    /\ status >= 400
    /\ pc' = "raised"
    /\ exc' = "IngestError"
    /\ UNCHANGED <<status, tmp_exists, subpath, cause, is_zip>>
    /\ UNCHANGED loopVars

StatusAccepted ==
    /\ pc = "status"
    /\ status # 404
    /\ status < 400
    /\ pc' = "save_tmp"
    /\ UNCHANGED <<exc, status, tmp_exists, subpath, cause, is_zip>>
    /\ UNCHANGED loopVars

(***************************************************************************)
(* The temporary file and the archive.                                     *)
(***************************************************************************)
\* NamedTemporaryFile raises: tmp_zip is still None.
TmpCreateFails ==
    /\ pc = "save_tmp"
    /\ exc' = "OSError"
    /\ pc' = "finally"
    /\ UNCHANGED <<status, tmp_exists, subpath, cause, is_zip>>
    /\ UNCHANGED loopVars

\* The file is created and write, flush or close raises.
TmpWriteFails ==
    /\ pc = "save_tmp"
    /\ tmp_exists' = TRUE
    /\ exc' = "OSError"
    /\ pc' = "finally"
    /\ UNCHANGED <<status, subpath, cause, is_zip>>
    /\ UNCHANGED loopVars

TmpSaved ==
    /\ pc = "save_tmp"
    /\ tmp_exists' = TRUE
    /\ pc' = "open_zip"
    /\ UNCHANGED <<exc, status, subpath, cause, is_zip>>
    /\ UNCHANGED loopVars

\* zipfile.ZipFile raises BadZipFile: the bytes are no archive.
OpenZipFails ==
    /\ pc = "open_zip"
    /\ ~is_zip
    /\ exc' = "BadZipFile"
    /\ pc' = "finally"
    /\ UNCHANGED <<status, tmp_exists, subpath, cause, is_zip>>
    /\ UNCHANGED loopVars

\* The archive opens: entries = z.infolist(), the counters are zeroed and
\* the loop takes its first entry, if there is one.
OpenZip ==
    /\ pc = "open_zip"
    /\ is_zip
    /\ \E n \in 0..MaxEntries :
         /\ n_entries' = n
         /\ stats' = [stats EXCEPT !.files_considered = n]
         /\ IF n = 0
            THEN pc' = "end_for" /\ idx' = 0 /\ info' = info
            ELSE pc' = "loop" /\ idx' = 1 /\ info' \in Entries
    /\ total_uncompressed' = 0
    /\ extracted_count' = 0
    /\ included_count' = 0
    /\ read_count' = 0
    /\ skipped_count' = 0
    /\ UNCHANGED <<exc, status, tmp_exists, subpath, cause, is_zip, files, metadata,
                   n_dirs, n_files, all_plain, dropped,
                   n_attempted, sum_passed>>

(***************************************************************************)
(* The entry pass: one action for each way through the loop body.          *)
(***************************************************************************)
\* rel_path of the entry at hand.
Rel == RelPath(info.filename, subpath)

\* The entry passes the directory, subpath and denylist steps.
Admitted(e, sp) ==
    /\ ~IsDirectory(e.filename)
    /\ ~OutsideSubpath(e.filename, sp)
    /\ ~HasSkipDir(RelPath(e.filename, sp))

\* The entry passes the path filters: subpath, denylist and extension.
PassesPathFilters(e, sp) ==
    Admitted(e, sp) /\ ExtAllowed(RelPath(e.filename, sp))

\* An admitted allowlisted entry of declared size 0.
Plain(e, sp) == PassesPathFilters(e, sp) /\ e.file_size = 0

\* Mutant of MarkTruncated: a reason already recorded is kept.
MarkKeepsFirstReason(md, reason) ==
    [md EXCEPT !.truncated = TRUE,
               !.reason = IF md.reason = "None" THEN reason ELSE md.reason]

\* Mutant of MarkTruncated: the reason is set, the flag is not.
MarkReasonOnly(md, reason) == [md EXCEPT !.reason = reason]

\* metadata.truncated = True; metadata.reason = reason
MarkTruncated(md, reason) == [md EXCEPT !.truncated = TRUE, !.reason = reason]

\* stats.truncated = True; stats.reason = metadata.reason
MirrorTruncated(st, md) == [st EXCEPT !.truncated = TRUE, !.reason = md.reason]

\* Mutant of Continue: the loop ends one entry early.
ContinueStopsEarly ==
    IF idx + 1 < n_entries
    THEN pc' = "loop" /\ idx' = idx + 1 /\ info' \in Entries
    ELSE pc' = "end_for" /\ idx' = idx /\ info' = info

\* `continue`: the loop takes the next entry, or ends after the last one.
Continue ==
    IF idx < n_entries
    THEN pc' = "loop" /\ idx' = idx + 1 /\ info' \in Entries
    ELSE pc' = "end_for" /\ idx' = idx /\ info' = info

\* Mutant of Break: the loop goes on after a terminating cap.
BreakContinues ==
    IF idx < n_entries
    THEN pc' = "loop" /\ idx' = idx + 1 /\ info' \in Entries
    ELSE pc' = "end_for" /\ idx' = idx /\ info' = info

\* `break`
Break == pc' = "end_for" /\ idx' = idx /\ info' = info

\* What the step adds to the recorded history.
Examined(isDir, caps) ==
    /\ n_dirs' = IF isDir THEN n_dirs + 1 ELSE n_dirs
    /\ n_files' = IF isDir THEN n_files ELSE n_files + 1
    /\ all_plain' = (all_plain /\ Plain(info, subpath))
    /\ dropped' = dropped \cup caps

\* What the step adds to the recorded counts: the entry passed the
\* entry-count cap (line 124), its read was attempted (line 167).
Accounted(passed, attempted) ==
    /\ sum_passed' = IF passed THEN sum_passed + info.file_size ELSE sum_passed
    /\ n_attempted' = IF attempted THEN n_attempted + 1 ELSE n_attempted

\* Mutant of SkipEarly: the entry is passed over without being counted.
SkipEarlyUncounted(isDir) ==
    /\ Continue
    /\ Examined(isDir, {})
    /\ Accounted(FALSE, FALSE)
    /\ UNCHANGED <<exc, status, tmp_exists, subpath, cause, is_zip, n_entries,
                   files, metadata, stats, total_uncompressed, extracted_count,
                   included_count, read_count, skipped_count>>

\* A skip before the caps: skipped_count += 1; continue
SkipEarly(isDir) ==
    /\ skipped_count' = skipped_count + 1
    /\ Continue
    /\ Examined(isDir, {})
    /\ Accounted(FALSE, FALSE)
    /\ UNCHANGED <<exc, status, tmp_exists, subpath, cause, is_zip, n_entries, files,
                   metadata, stats, total_uncompressed, extracted_count,
                   included_count, read_count>>

SkipDirectory ==
    /\ pc = "loop"
    /\ IsDirectory(info.filename)
    /\ SkipEarly(TRUE)

SkipOutsideSubpath ==
    /\ pc = "loop"
    /\ ~IsDirectory(info.filename)
    /\ OutsideSubpath(info.filename, subpath)
    /\ SkipEarly(FALSE)

SkipDenylisted ==
    /\ pc = "loop"
    /\ ~IsDirectory(info.filename)
    /\ ~OutsideSubpath(info.filename, subpath)
    /\ HasSkipDir(Rel)
    /\ SkipEarly(FALSE)

\* The entry-count cap fires.
StopMaxFilesExtracted ==
    /\ pc = "loop"
    /\ Admitted(info, subpath)
    /\ extracted_count' = extracted_count + 1
    /\ ExtractCapExceeded(extracted_count + 1)
    /\ metadata' = MarkTruncated(metadata, "max_files_extracted_reached")
    /\ stats' = MirrorTruncated(stats, metadata')
    /\ Break
    /\ Examined(FALSE, IF ExtAllowed(Rel) THEN {"max_files_extracted"} ELSE {})
    /\ Accounted(FALSE, FALSE)
    /\ UNCHANGED <<exc, status, tmp_exists, subpath, cause, is_zip, n_entries, files,
                   total_uncompressed, included_count, read_count,
                   skipped_count>>

\* The total-uncompressed-bytes cap fires.
StopMaxTotalUncompressed ==
    /\ pc = "loop"
    /\ Admitted(info, subpath)
    /\ extracted_count' = extracted_count + 1
    /\ ~ExtractCapExceeded(extracted_count + 1)
    /\ total_uncompressed' = total_uncompressed + info.file_size
    /\ TotalCapExceeded(total_uncompressed + info.file_size)
    /\ metadata' = MarkTruncated(metadata, "max_total_uncompressed_reached")
    /\ stats' = MirrorTruncated(stats, metadata')
    /\ Break
    /\ Examined(FALSE, IF ExtAllowed(Rel) THEN {"max_total_uncompressed"} ELSE {})
    /\ Accounted(TRUE, FALSE)
    /\ UNCHANGED <<exc, status, tmp_exists, subpath, cause, is_zip, n_entries, files,
                   included_count, read_count, skipped_count>>

\* The entry is past the two caps: the counters of lines 123-140.
PastCaps ==
    /\ pc = "loop"
    /\ Admitted(info, subpath)
    /\ extracted_count' = extracted_count + 1
    /\ ~ExtractCapExceeded(extracted_count + 1)
    /\ total_uncompressed' = total_uncompressed + info.file_size
    /\ ~TotalCapExceeded(total_uncompressed + info.file_size)

\* Mutant of WithTotal: the total is not copied into stats.
WithTotalStale(st) == st

\* stats.total_uncompressed_bytes = total_uncompressed
WithTotal(st) == [st EXCEPT !.total_uncompressed_bytes = total_uncompressed']

\* The extension filter skips the entry.
SkipExtension ==
    /\ PastCaps
    /\ ~ExtAllowed(Rel)
    /\ stats' = WithTotal(stats)
    /\ skipped_count' = skipped_count + 1
    /\ Continue
    /\ Examined(FALSE, {})
    /\ Accounted(TRUE, FALSE)
    /\ UNCHANGED <<exc, status, tmp_exists, subpath, cause, is_zip, n_entries, files,
                   metadata, included_count, read_count>>

\* The single-file-size cap skips the entry.
SkipTooLarge ==
    /\ PastCaps
    /\ ExtAllowed(Rel)
    /\ TooLargeSingle(info.file_size)
    /\ stats' = WithTotal(stats)
    /\ skipped_count' = skipped_count + 1
    /\ Continue
    /\ Examined(FALSE, {"single_file_size"})
    /\ Accounted(TRUE, FALSE)
    /\ UNCHANGED <<exc, status, tmp_exists, subpath, cause, is_zip, n_entries, files,
                   metadata, included_count, read_count>>

\* Mutant of Included: the entry is counted only once the in-memory cap has
\* let it through.
IncludedAfterCap ==
    /\ PastCaps
    /\ ExtAllowed(Rel)
    /\ ~TooLargeSingle(info.file_size)
    /\ included_count' = IF MemoryCapReached(read_count)
                          THEN included_count ELSE included_count + 1

\* The entry is to be included: the counters of lines 153-155.
Included ==
    /\ PastCaps
    /\ ExtAllowed(Rel)
    /\ ~TooLargeSingle(info.file_size)
    /\ included_count' = included_count + 1

\* Mutant of WithIncluded: stats.files_included is left for the end of the pass.
WithIncludedStale(st) == st

\* stats.files_included = included_count
WithIncluded(st) == [st EXCEPT !.files_included = included_count']

\* The in-memory-file-count cap fires.
StopMaxFilesInMemory ==
    /\ Included
    /\ MemoryCapReached(read_count)
    /\ metadata' = MarkTruncated(metadata, "max_files_in_memory_reached")
    /\ stats' = MirrorTruncated(WithIncluded(WithTotal(stats)), metadata')
    /\ Break
    /\ Examined(FALSE, {"max_files_in_memory"})
    /\ Accounted(TRUE, FALSE)
    /\ UNCHANGED <<exc, status, tmp_exists, subpath, cause, is_zip, n_entries, files,
                   read_count, skipped_count>>

\* SourceFile(path=rel_path, content=text)
SourceFile(path, content) == [path |-> path, content |-> content]

\* The entry is read, decoded, cut to the character cap and appended.
ReadEntry ==
    /\ Included
    /\ ~MemoryCapReached(read_count)
    /\ ~info.bad
    /\ LET text == Decode(ReadRaw(info.data))
           md == IF OverCharCap(text)
                 THEN MarkTruncated(metadata, "max_chars_per_file_reached")
                 ELSE metadata
           st == IF OverCharCap(text)
                 THEN MirrorTruncated(WithIncluded(WithTotal(stats)), md)
                 ELSE WithIncluded(WithTotal(stats))
       IN  /\ metadata' = md
           /\ files' = Append(files, SourceFile(Rel, CapText(text)))
           /\ read_count' = read_count + 1
           /\ stats' = [st EXCEPT !.files_read = read_count']
    /\ Continue
    /\ Examined(FALSE, {})
    /\ Accounted(TRUE, TRUE)
    /\ UNCHANGED <<exc, status, tmp_exists, subpath, cause, is_zip, n_entries, skipped_count>>

\* Mutant of ReadFails: the exception of the read leaves the loop.
ReadFailsAborts ==
    /\ Included
    /\ ~MemoryCapReached(read_count)
    /\ info.bad
    /\ stats' = WithIncluded(WithTotal(stats))
    /\ exc' = "BadZipFile"
    /\ pc' = "finally"
    /\ Examined(FALSE, {})
    /\ Accounted(TRUE, TRUE)
    /\ UNCHANGED <<status, tmp_exists, subpath, cause, is_zip, n_entries, idx,
                   info, files, metadata, read_count, skipped_count>>

\* z.open or fh.read raises: skipped_count += 1; continue
ReadFails ==
    /\ Included
    /\ ~MemoryCapReached(read_count)
    /\ info.bad
    /\ stats' = WithIncluded(WithTotal(stats))
    /\ skipped_count' = skipped_count + 1
    /\ Continue
    /\ Examined(FALSE, {})
    /\ Accounted(TRUE, TRUE)
    /\ UNCHANGED <<exc, status, tmp_exists, subpath, cause, is_zip, n_entries, files,
                   metadata, read_count>>

\* After the loop: the counters are copied into stats.
EndFor ==
    /\ pc = "end_for"
    /\ stats' = [stats EXCEPT !.files_skipped = skipped_count,
                              !.files_considered = n_entries,
                              !.files_included = included_count]
    /\ pc' = "finally"
    /\ UNCHANGED <<exc, status, tmp_exists, subpath, cause, is_zip, n_entries, idx, info,
                   files, metadata, total_uncompressed, extracted_count,
                   included_count, read_count, skipped_count,
                   n_dirs, n_files, all_plain, dropped,
                   n_attempted, sum_passed>>

\* finally, with os.unlink raising: `except Exception: pass` swallows it and
\* the file stays; an exception in flight goes on.
FinallyUnlinkFails ==
    /\ pc = "finally"
    /\ tmp_exists
    /\ tmp_exists' = TRUE
    /\ pc' = IF exc = "None" THEN "return" ELSE "raised"
    /\ UNCHANGED <<exc, status, subpath, cause, is_zip>>
    /\ UNCHANGED loopVars

\* finally: the temporary file, if there is one, is unlinked; an exception
\* in flight goes on.
Finally ==
    /\ pc = "finally"
    /\ tmp_exists' = FALSE
    /\ pc' = IF exc = "None" THEN "return" ELSE "raised"
    /\ UNCHANGED <<exc, status, subpath, cause, is_zip>>
    /\ UNCHANGED loopVars

\* return payload, stats
Return ==
    /\ pc = "return"
    /\ pc' = "returned"
    /\ UNCHANGED <<exc, status, tmp_exists, subpath, cause, is_zip>>
    /\ UNCHANGED loopVars

Next ==
    \/ DownloadReadTimeout
    \/ DownloadFails
    \/ DownloadResponds
    \/ StatusNotFound
    \/ StatusError
    \/ StatusAccepted
    \/ TmpCreateFails
    \/ TmpWriteFails
    \/ TmpSaved
    \/ OpenZipFails
    \/ OpenZip
    \/ SkipDirectory
    \/ SkipOutsideSubpath
    \/ SkipDenylisted
    \/ StopMaxFilesExtracted
    \/ StopMaxTotalUncompressed
    \/ SkipExtension
    \/ SkipTooLarge
    \/ StopMaxFilesInMemory
    \/ ReadEntry
    \/ ReadFails
    \/ EndFor
    \/ Finally
    \/ FinallyUnlinkFails
    \/ Return

Spec == Init /\ [][Next]_vars

(***************************************************************************)
(* Properties.                                                             *)
(***************************************************************************)
\* A terminating cap has fired.
Terminated == metadata.reason \in TerminatingReasons

\* ingest_repo has returned its payload.
Returned == pc = "returned"

\* Every entry examined was an admitted, allowlisted, zero-byte file and the
\* archive holds more than MAX_FILES_EXTRACT entries.
ManyPlainEntries == all_plain /\ n_entries > MAX_FILES_EXTRACT

\* C1 as stated: an archive of more than MAX_FILES_EXTRACT admitted,
\* allowlisted, zero-byte entries is cut at the entry after the
\* MAX_FILES_EXTRACT-th, with reason max_files_extracted_reached and
\* files_included <= MAX_FILES_EXTRACT.
C1_StopsAtMaxFilesExtracted ==
    (Returned /\ ManyPlainEntries) =>
        /\ metadata.truncated
        /\ metadata.reason = "max_files_extracted_reached"
        /\ n_files = MAX_FILES_EXTRACT + 1
        /\ stats.files_included <= MAX_FILES_EXTRACT

\* C1 amended: such an archive returns truncated with files_included <=
\* MAX_FILES_EXTRACT; the in-memory cap stops the pass, at the first entry
\* after MAX_FILES_IN_MEMORY entries were read (the entry MAX_FILES_IN_MEMORY
\* + 1 when no read fails); the entry-count cap stops it, at entry
\* MAX_FILES_EXTRACT + 1, only when the in-memory cap has not fired before.
C1_PlainArchiveTruncated ==
    (Returned /\ ManyPlainEntries) =>
        /\ metadata.truncated
        /\ stats.files_included <= MAX_FILES_EXTRACT
        /\ metadata.reason \in {"max_files_in_memory_reached",
                                "max_files_extracted_reached"}
        /\ metadata.reason = "max_files_in_memory_reached" =>
              /\ Len(files) = MAX_FILES_IN_MEMORY
              /\ n_files <= MAX_FILES_EXTRACT
              /\ stats.files_included = n_files
        /\ metadata.reason = "max_files_extracted_reached" =>
              /\ n_files = MAX_FILES_EXTRACT + 1
              /\ stats.files_included = MAX_FILES_EXTRACT
        /\ stats.files_skipped = 0 =>
              /\ metadata.reason = "max_files_in_memory_reached"
              /\ n_files = MAX_FILES_IN_MEMORY + 1

\* Witness of C1: such an archive, every read succeeding, has returned.
C1_Witness ==
    /\ Returned
    /\ ManyPlainEntries
    /\ stats.files_skipped = 0
    /\ metadata.reason = "max_files_in_memory_reached"
    /\ Len(files) = MAX_FILES_IN_MEMORY

\* The cap a terminating reason belongs to.
CapOfReason(reason) ==
    CASE reason = "max_files_extracted_reached" -> MAX_FILES_EXTRACT
      [] reason = "max_total_uncompressed_reached" -> MAX_TOTAL_UNCOMPRESSED
      [] reason = "max_files_in_memory_reached" -> MAX_FILES_IN_MEMORY

TerminatingCaps ==
    {"max_files_extracted", "max_total_uncompressed", "max_files_in_memory"}

\* C3 as stated: when a cap kept an entry that passed the path filters out
\* of files, the returned metadata is truncated with a reason.
C3_NoSilentDrop ==
    (Returned /\ dropped # {}) =>
        (metadata.truncated /\ metadata.reason # "None")

\* C3 amended: when a terminating cap kept an entry that passed the path
\* filters out of files, the returned metadata is truncated with a reason
\* (the single-file-size cap drops entries without recording one).
C3_NoSilentTerminatingDrop ==
    (Returned /\ dropped \cap TerminatingCaps # {}) =>
        (metadata.truncated /\ metadata.reason \in TerminatingReasons)

\* Witness of C3: a terminating cap dropped an entry that passed the path
\* filters and the payload was returned.
C3_Witness ==
    /\ Returned
    /\ "max_files_in_memory" \in dropped
    /\ Len(files) = MAX_FILES_IN_MEMORY

\* Segment seg occurs in path p.
HasSegment(p, seg) ==
    LET segs == Split(p) IN \E i \in 1..Len(segs) : segs[i] = seg

\* Some segment of path p is a denylisted directory name.
HasDenylistedSegment(p) ==
    LET segs == Split(p) IN \E i \in 1..Len(segs) : segs[i] \in SKIP_DIRS

\* The step at hand leaves the entry out of files and counts it as skipped.
StepSkipsEntry == files' = files /\ skipped_count' = skipped_count + 1

\* The step at hand goes on to the next entry, or ends the loop after the
\* last one.
StepGoesOn ==
    IF idx < n_entries THEN pc' = "loop" /\ idx' = idx + 1 ELSE pc' = "end_for"

\* C4 as stated: an entry whose name has a denylisted directory name as a
\* component, at any depth and under any subpath, is kept out of files and
\* counted as skipped.
C4_DenylistedNameSkipped ==
    [][(pc = "loop" /\ HasDenylistedSegment(info.filename)) => StepSkipsEntry]_vars

\* The normalised path of an entry: the name without its first segment and,
\* for an entry under the subpath, without the subpath prefix (empty for an
\* entry that is the subpath itself).
NormalisedPath(e, sp) ==
    LET parts == Split(e.filename)
        rel == IF Len(parts) <= 1 THEN e.filename ELSE Join(Tail(parts))
        prefix == RStripSlash(sp) \o "/"
    IN  IF sp = "" THEN rel
        ELSE IF StartsWith(rel, prefix)
             THEN SubSeq(rel, Len(prefix) + 1, Len(rel))
        ELSE IF rel \o "/" = prefix THEN ""
        ELSE rel

\* C4 amended: an entry examined by the pass whose path, once the first
\* segment and the subpath prefix are stripped, has a denylisted component
\* at any depth is kept out of files and counted as skipped; the count
\* never goes down and is what Stats.files_skipped returns, and no path in
\* files has a denylisted component.
C4_DenylistedPathSkipped ==
    /\ [][(pc = "loop" /\ HasDenylistedSegment(NormalisedPath(info, subpath)))
            => StepSkipsEntry]_vars
    /\ [][skipped_count' >= skipped_count]_vars
    /\ [](Returned => stats.files_skipped = skipped_count)
    /\ [](\A i \in 1..Len(files) : ~HasDenylistedSegment(files[i].path))

\* Witness of C4: an entry denylisted two levels down was examined under no
\* subpath, and the payload was returned without it.
C4_Witness ==
    /\ Returned
    /\ subpath = ""
    /\ info.filename = "r/src/build/a.py"
    /\ stats.files_skipped = 1
    /\ files = <<>>

\* The lowercase extension of the entry's name is outside the allowlist.
ExtensionNotAllowlisted(e) == SplitExt(Lower(e.filename)) \notin ALLOWED_EXT

\* C5 as stated: an entry whose extension is outside the allowlist is
\* skipped whatever its size: counted, kept out of files, and the pass
\* continues.
C5_BadExtensionSkipped ==
    [][(pc = "loop" /\ ExtensionNotAllowlisted(info))
          => (StepSkipsEntry /\ StepGoesOn)]_vars

\* The entry-count or the total-bytes cap fires on the entry at hand.
EarlyCapFires ==
    /\ ~IsDirectory(info.filename)
    /\ ~OutsideSubpath(info.filename, subpath)
    /\ ~HasDenylistedSegment(NormalisedPath(info, subpath))
    /\ \/ extracted_count + 1 > MAX_FILES_EXTRACT
       \/ total_uncompressed + info.file_size > MAX_TOTAL_UNCOMPRESSED

\* C5 amended: an entry whose extension is outside the allowlist is never
\* added to files; it is counted as skipped and the pass continues, unless
\* the entry-count or the total-bytes cap fires on it first, which stops the
\* pass without counting it.
C5_BadExtensionNeverIncluded ==
    [][(pc = "loop" /\ ExtensionNotAllowlisted(info)) =>
          /\ files' = files
          /\ IF EarlyCapFires
             THEN /\ pc' = "end_for"
                  /\ skipped_count' = skipped_count
                  /\ metadata'.reason \in {"max_files_extracted_reached",
                                           "max_total_uncompressed_reached"}
             ELSE /\ skipped_count' = skipped_count + 1
                  /\ metadata' = metadata
                  /\ StepGoesOn]_vars

\* Witness of C5: an entry over the single-file cap with an extension
\* outside the allowlist was skipped by the extension filter, the next entry
\* was read, and the payload was returned.
C5_Witness ==
    /\ Returned
    /\ subpath = ""
    /\ n_entries = 2
    /\ info.filename = "r/a.py"
    /\ stats.files_skipped = 1
    /\ stats.total_uncompressed_bytes > MAX_SINGLE_FILE_SIZE
    /\ dropped = {}
    /\ Len(files) = 1

\* C6: no path in files has a '..' segment.
C6_NoTraversalSegment ==
    \A i \in 1..Len(files) : ~HasSegment(files[i].path, "..")

\* C7: the paths in files are pairwise distinct.
C7_PathsDistinct ==
    \A i, j \in 1..Len(files) : i # j => files[i].path # files[j].path

\* C8: Stats.files_included >= Stats.files_read at every step of the pass
\* and in the returned Stats.
C8_IncludedAtLeastRead == stats.files_included >= stats.files_read

\* Witness of C8: a read failed, another succeeded, and Stats was returned
\* with more entries included than read.
C8_Witness ==
    /\ Returned
    /\ stats.files_read >= 1
    /\ stats.files_included > stats.files_read
    /\ ~Terminated

\* A pass that no terminating cap stopped has returned.
FullPass == Returned /\ ~Terminated

\* C9 as stated: after a full pass, files_considered plus the directory
\* entries skipped equals the number of entries that are not directories.
C9_ConsideredPlusDirectories ==
    FullPass => stats.files_considered + n_dirs = n_files

\* C9 amended: after a full pass, files_considered minus the directory
\* entries skipped equals the number of entries that are not directories
\* (files_considered counts the directory entries too).
C9_ConsideredMinusDirectories ==
    FullPass => stats.files_considered - n_dirs = n_files

\* Witness of C9: a full pass over an archive with directory and file
\* entries, some of them filtered out.
C9_Witness ==
    /\ FullPass
    /\ n_dirs >= 1
    /\ n_files >= 2
    /\ stats.files_skipped > n_dirs
    /\ Len(files) >= 1

\* An entry with an allowlisted extension declared larger than the
\* single-file cap.
AllowlistedTooLarge(e) ==
    /\ SplitExt(Lower(e.filename)) \in ALLOWED_EXT
    /\ e.file_size > MAX_SINGLE_FILE_SIZE

\* The result C10 gives for an archive holding one such entry.
OnlySkipped == files = <<>> /\ stats.files_skipped = 1 /\ ~metadata.truncated

\* C10 as stated: an allowlisted entry over the single-file cap is counted
\* as skipped, kept out of files, sets neither truncated nor reason, and the
\* pass goes on; an archive holding only such an entry returns no files,
\* files_skipped = 1 and truncated = false.
C10_TooLargeOnlySkipped ==
    [][/\ (pc = "loop" /\ AllowlistedTooLarge(info)) =>
            (StepSkipsEntry /\ metadata' = metadata /\ StepGoesOn)
       /\ (pc' = "returned" /\ n_entries = 1 /\ AllowlistedTooLarge(info)) =>
            OnlySkipped']_vars

\* The entry at hand passes the path filters and neither the entry-count nor
\* the total-bytes cap fires on it.
ReachesSingleFileCheck ==
    /\ ~IsDirectory(info.filename)
    /\ ~OutsideSubpath(info.filename, subpath)
    /\ ~HasDenylistedSegment(NormalisedPath(info, subpath))
    /\ SplitExt(Lower(NormalisedPath(info, subpath))) \in ALLOWED_EXT
    /\ ~EarlyCapFires

\* C10 amended: an entry that reaches the single-file-size check (it passed
\* the path filters and neither the entry-count nor the total-bytes cap
\* fired on it) and is over the cap is counted as skipped, kept out of
\* files, sets neither truncated nor reason, and the pass goes on; an
\* archive holding only an allowlisted entry over the single-file cap and
\* within the total cap returns no files, files_skipped = 1 and truncated =
\* false.
C10_SingleFileCapSkipOnly ==
    [][/\ ( /\ pc = "loop"
            /\ ReachesSingleFileCheck
            /\ info.file_size > MAX_SINGLE_FILE_SIZE ) =>
            (StepSkipsEntry /\ metadata' = metadata /\ StepGoesOn
               /\ "single_file_size" \in dropped')
       /\ ( /\ pc' = "returned"
            /\ n_entries = 1
            /\ AllowlistedTooLarge(info)
            /\ info.file_size <= MAX_TOTAL_UNCOMPRESSED ) =>
            OnlySkipped']_vars

\* Witness of C10: the single-file cap skipped the only entry of an archive
\* and the payload was returned.
C10_Witness ==
    /\ Returned
    /\ n_entries = 1
    /\ AllowlistedTooLarge(info)
    /\ dropped = {"single_file_size"}
    /\ OnlySkipped

\* The httpx exceptions that mean the request exceeded the timeout, one for
\* each phase: connect, write, read and pool acquisition.
TimeoutCauses == {"ConnectTimeout", "WriteTimeout", "ReadTimeout", "PoolTimeout"}

\* C11 as stated: whenever the request exceeds the timeout, in any phase
\* (connect, write, read, pool acquisition), ingest_repo fails with
\* DownloadTimeout and with no other error.
C11_TimeoutRaisesDownloadTimeout ==
    (pc = "raised" /\ cause \in TimeoutCauses) => exc = "DownloadTimeout"

\* IngestError and its subclasses.
IngestErrors == {"IngestError", "NotFoundError", "DownloadTimeout", "TooLargeError"}

\* C12 as stated: when the downloaded bytes are not a valid archive, the
\* step that opens them leaves a failure of the ingestion error taxonomy
\* (IngestError or a subclass) in flight, and no entry pass starts.
C12_InvalidArchiveRaisesIngestError ==
    [][(pc = "open_zip" /\ ~is_zip) =>
          (exc' \in IngestErrors /\ pc' \notin {"loop", "end_for"})]_vars

\* A response has arrived and its status is not 2xx.
Non2xx == status # 0 /\ status \notin 200..299

\* C13 as stated: for every response whose status is not 2xx, ingest_repo
\* fails before a temporary file is written or an archive opened, with
\* NotFoundError for 404 and IngestError for every other status.
C13_Non2xxFailsEarly ==
    Non2xx =>
        /\ pc \in {"status", "raised"}
        /\ ~tmp_exists
        /\ pc = "raised" =>
              exc = (IF status = 404 THEN "NotFoundError" ELSE "IngestError")

\* C14 as stated: on every exit path of ingest_repo (return or exception),
\* the temporary file no longer exists when control leaves.
C14_TmpFileRemoved ==
    pc \in {"returned", "raised"} => ~tmp_exists

\* The in-memory-file-count cap ended the pass.
StoppedInMemory == metadata.reason = "max_files_in_memory_reached"

\* C15 as stated: the returned files_included is the number of entries that
\* passed the path filters, the single-file-size check and every terminating
\* cap check, read or not (the entries whose read was attempted); the entry
\* on which a terminating cap fired is not counted.
C15_IncludedCountsAttempted ==
    Returned => stats.files_included = n_attempted

\* C15 amended: the returned files_included is the number of entries whose
\* read was attempted, plus one when the in-memory-file-count cap ended the
\* pass: the entry on which that cap fired is counted, the entry on which
\* the entry-count or total-bytes cap fired is not.
C15_IncludedCountsInMemoryStop ==
    Returned =>
        stats.files_included = n_attempted + (IF StoppedInMemory THEN 1 ELSE 0)

\* A pass that the in-memory cap ended after MAX_FILES_IN_MEMORY reads.
C15_Witness ==
    /\ Returned
    /\ StoppedInMemory
    /\ n_attempted = MAX_FILES_IN_MEMORY
    /\ stats.files_included = MAX_FILES_IN_MEMORY + 1

\* The step appends a SourceFile to files.
StepAppendsFile == Len(files') = Len(files) + 1

\* The content of the SourceFile the step appends.
AppendedContent == files'[Len(files')].content

\* C16 as stated: whenever the content of an appended SourceFile is shorter
\* than the full decoded text of its entry, metadata.truncated is set, and
\* an entry whose decoded text is longer than MAX_CHARS_PER_FILE sets the
\* reason max_chars_per_file_reached.
C16_CutContentMarksTruncated ==
    [][(StepAppendsFile /\ Len(AppendedContent) < Len(Decode(info.data))) =>
          /\ metadata'.truncated
          /\ metadata'.reason = "max_chars_per_file_reached"]_vars

\* The step counts an entry against the entry-count cap (line 123).
StepCountsEntry == extracted_count' = extracted_count + 1

\* The reason of the cap that fires in the step, told by what the step does
\* to the counters and to files: the count or the total goes over its cap;
\* the entry is included but neither read nor skipped; a file is appended
\* whose decoded read is longer than the character cap.
FiredInStep ==
    IF ~StepCountsEntry THEN "None"
    ELSE IF extracted_count' > MAX_FILES_EXTRACT
         THEN "max_files_extracted_reached"
    ELSE IF total_uncompressed' > MAX_TOTAL_UNCOMPRESSED
         THEN "max_total_uncompressed_reached"
    ELSE IF /\ included_count' = included_count + 1
            /\ read_count' = read_count
            /\ skipped_count' = skipped_count
         THEN "max_files_in_memory_reached"
    ELSE IF StepAppendsFile /\ Len(Decode(ReadRaw(info.data))) > MAX_CHARS_PER_FILE
         THEN "max_chars_per_file_reached"
    ELSE "None"

StoppedOnTotal == metadata.reason = "max_total_uncompressed_reached"

StepReadRaises == n_attempted' = n_attempted + 1 /\ info.bad

\* C19: a failure while opening or reading an admitted entry raises nothing
\* out of the loop: the step counts the entry as skipped, leaves files and
\* files_read as they were, and goes on to the next entry (or to the end of
\* the pass after the last one); the returned files_skipped is that count.
C19_ReadFailureSkipsEntry ==
    /\ [][StepReadRaises =>
            /\ exc' = "None"
            /\ skipped_count' = skipped_count + 1
            /\ files' = files
            /\ read_count' = read_count
            /\ stats'.files_read = stats.files_read
            /\ IF idx < n_entries
               THEN pc' = "loop" /\ idx' = idx + 1
               ELSE pc' = "end_for"]_vars
    /\ [](Returned => stats.files_skipped = skipped_count)

\* The pass is at its third entry after one entry was read and the read of
\* another failed.
C19_Witness ==
    /\ pc = "loop"
    /\ idx = 3
    /\ n_attempted = 2
    /\ read_count = 1
    /\ Len(files) = 1
    /\ skipped_count = 1

\* C20: in the returned Stats, after a pass in which no terminating cap
\* fired, files_skipped + files_read = files_considered; after a pass that
\* a terminating cap stopped, files_skipped + files_read < files_considered;
\* in both, len(files) = files_read.
C20_SkippedPlusReadAccounting ==
    Returned =>
        /\ Len(files) = stats.files_read
        /\ IF Terminated
           THEN stats.files_skipped + stats.files_read < stats.files_considered
           ELSE stats.files_skipped + stats.files_read = stats.files_considered

\* A pass stopped by a terminating cap after a skip and a read, with an
\* entry left unexamined.
C20_Witness ==
    /\ Returned
    /\ Terminated
    /\ stats.files_skipped >= 1
    /\ stats.files_read >= 1
    /\ n_dirs + n_files < stats.files_considered

====
